---------------------------- MODULE Spec2Model ----------------------------
(***************************************************************************)
(* Model of the Vercel -> Discord webhook bridge                           *)
(* (src/src/app/api/vercel-webhook/route.ts).                              *)
(*                                                                         *)
(* One behaviour is one invocation of the POST handler.  JavaScript        *)
(* strings are TLA+ strings, so truncation, joining and case folding are   *)
(* computed on the characters, as the code computes them.  Every await of  *)
(* the code is a separate step whose result the environment chooses: a     *)
(* resolved value or a rejection.                                          *)
(***************************************************************************)
EXTENDS Integers, Sequences, FiniteSets, TLC

VARIABLES
    env,              \* process.env values read at line 5
    req,              \* the inbound request: raw body and signature header
    pc,               \* position of the handler (one value per await)
    vercelEvent,      \* result of JSON.parse (line 46)
    logResponse,      \* the response of the log query the handler holds
    logData,          \* the parsed body of the log query (line 108)
    buildLogs,        \* value returned by fetchVercelBuildLogs (line 185)
    discordResponse,  \* the response of the delivery POST the handler holds
    calls,            \* outbound HTTP requests issued so far, in order
    response,         \* the Response returned to the caller
    trace             \* the steps the handler has executed, in order

vars == <<env, req, pc, vercelEvent, logResponse, logData, buildLogs,
          discordResponse, calls, response, trace>>

-----------------------------------------------------------------------------
(* JavaScript values and string primitives *)

\* JavaScript's undefined / null where the model needs a string-typed slot.
Undefined == "<undefined>"
Null == "<null>"

\* Boolean(v) for the string-or-undefined values of the model.
Truthy(v) == v # Undefined /\ v # Null /\ v # ""

\* a || b
Or(a, b) == IF Truthy(a) THEN a ELSE b

\* `${v}` inside a template literal.
Str(v) == IF v = Undefined THEN "undefined" ELSE IF v = Null THEN "null" ELSE v

Min(a, b) == IF a < b THEN a ELSE b

\* String.prototype.substring(0, n)
substring0(s, n) == SubSeq(s, 1, Min(Len(s), n))

LowerAlphabet == "abcdefghijklmnopqrstuvwxyz"
UpperAlphabet == "ABCDEFGHIJKLMNOPQRSTUVWXYZ"

\* The letter-to-letter table that sends the i-th character of from to the
\* i-th character of to.
CaseTable(from, to) ==
    [c \in {SubSeq(from, i, i) : i \in 1..Len(from)} |->
        SubSeq(to, CHOOSE i \in 1..Len(from) : SubSeq(from, i, i) = c,
                   CHOOSE i \in 1..Len(from) : SubSeq(from, i, i) = c)]

ToLowerTable == CaseTable(UpperAlphabet, LowerAlphabet)
ToUpperTable == CaseTable(LowerAlphabet, UpperAlphabet)

RECURSIVE MapString(_, _, _)
MapString(s, table, i) ==
    IF i > Len(s) THEN ""
    ELSE LET c == SubSeq(s, i, i)
         IN (IF c \in DOMAIN table THEN table[c] ELSE c) \o MapString(s, table, i + 1)

\* String.prototype.toLowerCase / toUpperCase
toLowerCase(s) == MapString(s, ToLowerTable, 1)
toUpperCase(s) == MapString(s, ToUpperTable, 1)

\* String.prototype.includes
includes(s, sub) ==
    \E i \in 1..(Len(s) - Len(sub) + 1) : SubSeq(s, i, i + Len(sub) - 1) = sub

\* Index of the first occurrence of the one-character string c in s, 0 if none.
IndexOf(s, c) ==
    IF \E i \in 1..Len(s) : SubSeq(s, i, i) = c
    THEN CHOOSE i \in 1..Len(s) :
            /\ SubSeq(s, i, i) = c
            /\ \A j \in 1..(i - 1) : SubSeq(s, j, j) # c
    ELSE 0

\* s.split('.')[1]: the text between the first and the second dot.
SplitSecond(s) ==
    LET d1 == IndexOf(s, ".") IN
    IF d1 = 0 THEN Undefined
    ELSE LET rest == SubSeq(s, d1 + 1, Len(s))
             d2 == IndexOf(rest, ".")
         IN IF d2 = 0 THEN rest ELSE SubSeq(rest, 1, d2 - 1)

\* Array.prototype.join('\n') of a sequence of strings.
RECURSIVE join(_)
join(lines) ==
    IF lines = <<>> THEN ""
    ELSE IF Len(lines) = 1 THEN lines[1]
    ELSE lines[1] \o "\n" \o join(Tail(lines))

\* Array.prototype.slice(-n)
sliceLast(seq, n) ==
    IF Len(seq) <= n THEN seq ELSE SubSeq(seq, Len(seq) - n + 1, Len(seq))

-----------------------------------------------------------------------------
(* fetchVercelBuildLogs (lines 79-136): the pure parts *)

\* .substring(0, 1500) at lines 119 and 130
LogLimit == 1500

\* .slice(-30) at line 124
TailSize == 30

\* A log event of the Vercel API: a `type` tag, a nested payload.text and a
\* top-level text.  payloadText is Undefined when payload or payload.text is
\* absent.  isNull marks a JSON null in the array.
LogEvent(type, payloadText, text) ==
    [isNull |-> FALSE, type |-> type, payloadText |-> payloadText, text |-> text]

NullEvent == [isNull |-> TRUE, type |-> Undefined, payloadText |-> Undefined,
              text |-> Undefined]

\* The first filter with the text compared as it is, not in lower case.
IsErrorEvent_CaseSensitive(event) ==
    \/ event.type = "stderr"
    \/ event.type = "error"
    \/ /\ event.type = "stdout"
       /\ event.payloadText # Undefined
       /\ includes(event.payloadText, "error")

\* The predicate of the first filter (line 112).
IsErrorEvent(event) ==
    \/ event.type = "stderr"
    \/ event.type = "error"
    \/ /\ event.type = "stdout"
       /\ event.payloadText # Undefined
       /\ includes(toLowerCase(event.payloadText), "error")

\* The predicate of the second filter (line 123).
IsOutputEvent(event) == event.type = "stdout" \/ event.type = "stderr"

\* event.payload?.text || event.text (lines 113 and 125)
EventText(event) == Or(event.payloadText, event.text)

\* .map(text).filter(Boolean).join('\n') (lines 113-115 and 125-127)
JoinTexts(events) ==
    join(SelectSeq([i \in 1..Len(events) |-> EventText(events[i])], Truthy))

\* Lines 111-115.
ErrorLogs(data) == JoinTexts(SelectSeq(data, IsErrorEvent))

\* Lines 122-127.
AllLogs(data) == JoinTexts(sliceLast(SelectSeq(data, IsOutputEvent), TailSize))

\* Lines 117-130 for an array without null elements.
SelectLogs(data) ==
    LET errorLogs == ErrorLogs(data)
    IN IF errorLogs # ""
       THEN substring0(errorLogs, LogLimit)
       ELSE Or(substring0(AllLogs(data), LogLimit), "No logs available")

\* Line 82.
NoTokenPlaceholder == "Build logs unavailable (VERCEL_TOKEN not configured)"

\* Line 105.
NotOkPlaceholder(status) == "Failed to fetch build logs: " \o ToString(status)

\* Line 134.
CatchPlaceholder(message) == "Error fetching build logs: " \o message

\* A parsed response body of the log query: the JSON text is invalid
\* (response.json() rejects), or it is a non-array value, or an array.
LogBody(kind, data) == [kind |-> kind, data |-> data]

\* Lines 108-135 once response.json() has settled: the value
\* fetchVercelBuildLogs returns.  Everything that throws is inside the try.
LogsFromBody(body) ==
    IF body.kind = "invalid"
    THEN CatchPlaceholder("Unexpected end of JSON input")
    ELSE IF body.kind = "object"
    THEN CatchPlaceholder("data.filter is not a function")
    ELSE IF \E i \in 1..Len(body.data) : body.data[i].isNull
    THEN CatchPlaceholder("Cannot read properties of null (reading 'type')")
    ELSE SelectLogs(body.data)

-----------------------------------------------------------------------------
(* The inbound request *)

\* sha1 (lines 75-77): the hex HMAC-SHA1 of data under secret.  The digest is
\* not computed; it is a string determined by, and determining, both
\* arguments (no collisions).
sha1(data, secret) == "hmac-sha1[" \o secret \o "](" \o data \o ")"

\* payload.deployment.meta of an event.
Meta(ref, org, repo, sha, message) ==
    [githubCommitRef |-> ref, githubCommitOrg |-> org, githubCommitRepo |-> repo,
     githubCommitSha |-> sha, githubCommitMessage |-> message]

GitHubMeta == Meta("main", "acme", "site", "abc1234", "fix bug")

\* A deployment that did not come from a GitHub push has no github* keys.
NoGitMeta == Meta(Undefined, Undefined, Undefined, Undefined, Undefined)

Payload(present, meta) ==
    [present |-> present,
     deployment |-> [id |-> "dpl_1", name |-> "site", meta |-> meta],
     links |-> [deployment |-> "https://vercel.com/acme/site/dpl_1",
                project |-> "https://vercel.com/acme/site"]]

\* A parsed JSON document: null, or an object with a type and maybe a payload.
JsNull == [isNull |-> TRUE, type |-> Undefined, payload |-> Payload(FALSE, NoGitMeta)]
Event(type, payload) == [isNull |-> FALSE, type |-> type, payload |-> payload]

RecognizedTypes == {"deployment.succeeded", "deployment.canceled", "deployment.error"}

Documents ==
    {JsNull}
    \cup {Event(t, p) : t \in RecognizedTypes,
                        p \in {Payload(TRUE, GitHubMeta), Payload(TRUE, NoGitMeta),
                               Payload(FALSE, NoGitMeta)}}
    \cup {Event(t, Payload(TRUE, GitHubMeta)) :
            t \in {"deployment.created", "deployment.ping", Undefined}}

\* The JSON text the sender puts on the wire for a document.
Quoted(v) == "\"" \o v \o "\""
MetaJSON(m) ==
    IF m.githubCommitRef = Undefined THEN "{}"
    ELSE "{\"githubCommitRef\":" \o Quoted(m.githubCommitRef)
         \o ",\"githubCommitOrg\":" \o Quoted(m.githubCommitOrg)
         \o ",\"githubCommitRepo\":" \o Quoted(m.githubCommitRepo)
         \o ",\"githubCommitSha\":" \o Quoted(m.githubCommitSha)
         \o ",\"githubCommitMessage\":" \o Quoted(m.githubCommitMessage) \o "}"
PayloadJSON(p) ==
    "{\"deployment\":{\"id\":" \o Quoted(p.deployment.id)
    \o ",\"name\":" \o Quoted(p.deployment.name)
    \o ",\"meta\":" \o MetaJSON(p.deployment.meta)
    \o "},\"links\":{\"deployment\":" \o Quoted(p.links.deployment)
    \o ",\"project\":" \o Quoted(p.links.project) \o "}}"
DocumentJSON(d) ==
    IF d.isNull THEN "null"
    ELSE "{" \o (IF d.type = Undefined THEN "\"id\":\"evt_1\""
                 ELSE "\"type\":" \o Quoted(d.type))
         \o (IF d.payload.present THEN ",\"payload\":" \o PayloadJSON(d.payload) ELSE "")
         \o "}"

\* A body that is not JSON at all.
GarbageBody == "<html>Bad Gateway</html>"

RawBodies == {DocumentJSON(d) : d \in Documents} \cup {GarbageBody}

\* JSON.parse (line 46): the document a text denotes, or a SyntaxError.
JSONparse(text) ==
    IF \E d \in Documents : DocumentJSON(d) = text
    THEN [threw |-> FALSE, value |-> CHOOSE d \in Documents : DocumentJSON(d) = text]
    ELSE [threw |-> TRUE, value |-> JsNull]

\* The secret the platform signs with, and one it does not.
SharedSecret == "s3cret"
OtherSecret == "guess"

\* The x-vercel-signature header of a request with body b: absent, the
\* platform's signature, a signature under another secret, or the signature
\* of another body (the body was changed after signing).
Signatures(b) ==
    {Null, sha1(b, SharedSecret), sha1(b, OtherSecret), sha1(b \o " ", SharedSecret)}

Requests ==
    UNION {{[body |-> b, signature |-> sig] : sig \in Signatures(b)} : b \in RawBodies}

\* process.env (line 5).
Envs ==
    [WEBHOOK_INTEGRATION_SECRET : {Undefined, SharedSecret},
     DISCORD_WEBHOOK_URL : {Undefined, "https://discord.com/api/webhooks/1/abc"},
     VERCEL_TOKEN : {Undefined, "", "tok_1"},
     VERCEL_TEAM_ID : {Undefined, "team_1"}]

\* typeof v != 'string' (lines 12 and 17)
IsString(v) == v # Undefined /\ v # Null

-----------------------------------------------------------------------------
(* Responses and outbound calls *)

NoResponse == [status |-> 0, body |-> ""]

\* The mismatch answered with a 401.
InvalidSignatureResponse_401 ==
    [status |-> 401,
     body |-> "{\"code\":\"invalid_signature\",\"error\":\"signature didn't match\"}"]

\* Response.json({code, error}) (lines 38-41): status 200 by default.
InvalidSignatureResponse ==
    [status |-> 200,
     body |-> "{\"code\":\"invalid_signature\",\"error\":\"signature didn't match\"}"]

\* Line 64.
SuccessResponse == [status |-> 200, body |-> "Notification sent to Discord."]

\* The 500 response carrying the caught error's message.
ErrorResponse_Leaky ==
    [status |-> 500, body |-> "Discord API returned 400: Cannot send an empty message"]

\* Line 71.
ErrorResponse == [status |-> 500, body |-> "Internal server error."]

\* TLA+ strings cannot hold the grave accent: Fence stands for the three
\* grave accents of the code fence at line 190.
Fence == "'''"

SuccessColor == 3066993
FailureColor == 15158332

\* state (line 142)
StateOf(event) == toUpperCase(SplitSecond(event.type))

\* The four fixed fields (lines 164-181).
BaseFields(event) ==
    LET d == event.payload.deployment
        m == d.meta
        githubCommitUrl == "https://github.com/" \o Str(m.githubCommitOrg) \o "/"
                           \o Str(m.githubCommitRepo) \o "/commit/"
                           \o Str(m.githubCommitSha)
    IN << [name |-> "Project",
           value |-> "[" \o Str(d.name) \o "](" \o Str(event.payload.links.project) \o ")"],
          [name |-> "Branch", value |-> m.githubCommitRef],
          [name |-> "Commit",
           value |-> "[" \o Str(m.githubCommitSha) \o "](" \o githubCommitUrl \o ")"],
          [name |-> "Commit Message", value |-> m.githubCommitMessage] >>

\* The Build Logs field pushed for ERROR only.
PushesBuildLogs_ErrorOnly(state, logs) ==
    /\ state = "ERROR"
    /\ Truthy(logs) /\ Len(logs) > 0

\* Whether the Build Logs field is pushed (lines 183 and 187), given the
\* value fetchVercelBuildLogs returned (Undefined when it was not called).
PushesBuildLogs(state, logs) ==
    /\ state = "ERROR" \/ state = "CANCELED"
    /\ Truthy(logs) /\ Len(logs) > 0

\* fields after lines 183-193.
Fields(event, logs) ==
    IF PushesBuildLogs(StateOf(event), logs)
    THEN Append(BaseFields(event),
                [name |-> "Build Logs", value |-> Fence \o "\n" \o logs \o "\n" \o Fence])
    ELSE BaseFields(event)

\* discordMessage (lines 195-204); only reached with a string branch name.
DiscordMessage(event, logs) ==
    LET d == event.payload.deployment
        state == StateOf(event)
    IN [content |-> Null,
        embeds |-> << [title |-> "Deployment of " \o Str(d.name) \o " in "
                                 \o toUpperCase(d.meta.githubCommitRef) \o ": "
                                 \o state \o ".",
                       url |-> event.payload.links.deployment,
                       description |-> "The deployment for " \o Str(d.name)
                                       \o " is now " \o state \o ".",
                       color |-> IF state = "SUCCEEDED" THEN SuccessColor
                                 ELSE FailureColor,
                       fields |-> Fields(event, logs)] >>]

NoMessage == [content |-> Null, embeds |-> <<>>]

\* The log query (lines 88-98).
LogQuery(deploymentId) ==
    [to |-> "vercel", method |-> "GET",
     url |-> IF Truthy(env.VERCEL_TEAM_ID)
             THEN "https://api.vercel.com/v3/deployments/" \o Str(deploymentId)
                  \o "/events?teamId=" \o env.VERCEL_TEAM_ID
             ELSE "https://api.vercel.com/v3/deployments/" \o Str(deploymentId)
                  \o "/events",
     authorization |-> "Bearer " \o env.VERCEL_TOKEN,
     body |-> NoMessage]

\* The delivery POST (lines 212-218).
Delivery(message) ==
    [to |-> "discord", method |-> "POST", url |-> env.DISCORD_WEBHOOK_URL,
     authorization |-> Undefined, body |-> message]

-----------------------------------------------------------------------------
(* What the environment can answer *)

\* Most filler lines a log query returns between its first and last line.
MaxFill == 31

\* Length of a long log line, and of a long error message.
LongLineLength == 1600
LongMessageLength == 1480

RECURSIVE Repeat(_, _)
Repeat(s, n) ==
    IF n = 0 THEN ""
    ELSE IF n % 2 = 0 THEN LET half == Repeat(s, n \div 2) IN half \o half
    ELSE s \o Repeat(s, n - 1)

FillerEvent ==
    LogEvent("stdout", "Installing dependencies and bundling the application ...", Undefined)

\* The kinds of line a build log holds.
LineKinds ==
    { LogEvent("stdout", "Type ERROR in page.tsx", Undefined),
      LogEvent("stdout", Undefined, "error TS2304: cannot find name"),
      LogEvent("stderr", "warn: deprecated package", Undefined),
      LogEvent("stderr", "", Undefined),
      LogEvent("stderr", Repeat("E", LongLineLength), Undefined),
      LogEvent("error", Undefined, "Error: build failed"),
      LogEvent("command", "npm run build", Undefined),
      FillerEvent,
      NullEvent }

Fill(k) == [i \in 1..k |-> FillerEvent]

\* A first line or none, then filler, then a last line or none.
LogArrays ==
    LET ends == {<<>>} \cup {<<e>> : e \in LineKinds}
    IN {a \o Fill(k) \o b : a \in ends, b \in ends, k \in {0, 1, MaxFill}}

LogBodies ==
    {LogBody("invalid", <<>>), LogBody("object", <<>>)}
    \cup {LogBody("array", d) : d \in LogArrays}

\* error.message of a rejected fetch or body read.  The code puts no bound
\* on it: a fetch rejected for an invalid Authorization value quotes the
\* value, which holds the configured token.
ErrorMessages == {"fetch failed", Repeat("x", LongMessageLength)}

\* An HTTP response the handler holds: its status, response.ok, and whether
\* its body has been read ("unread", "read", or "failed" when the read
\* rejected).
HttpResponse(status) ==
    [ok |-> status >= 200 /\ status < 300, status |-> status, text |-> "unread"]
NoHttpResponse == [ok |-> FALSE, status |-> 0, text |-> "unread"]
LogResponses == {HttpResponse(200), HttpResponse(404)}
DiscordResponses == {HttpResponse(204), HttpResponse(400), HttpResponse(429)}

-----------------------------------------------------------------------------
(* The handler *)

Init ==
    /\ env \in Envs
    /\ req \in Requests
    /\ pc = "start"
    /\ vercelEvent = JsNull
    /\ logResponse = NoHttpResponse
    /\ logData = LogBody("none", <<>>)
    /\ buildLogs = Undefined
    /\ discordResponse = NoHttpResponse
    /\ calls = <<>>
    /\ response = NoResponse
    /\ trace = <<>>

\* A return of the handler.
Respond(r, steps) ==
    /\ pc' = "done"
    /\ response' = r
    /\ trace' = steps \o <<"respond">>

\* An exception that leaves the handler: no Response is returned.
Throw(steps) ==
    /\ pc' = "threw"
    /\ response' = response
    /\ trace' = steps \o <<"throw">>

\* sendDiscordMessageFor from line 187 to the await of line 212, once
\* fetchVercelBuildLogs has returned logs (Undefined: it was not called).
\* gitBranch.toUpperCase() (line 198) throws a TypeError on a missing branch
\* name, which the catch of line 65 turns into the 500 response.
ComposeAndDeliver(event, logs, steps) ==
    /\ buildLogs' = logs
    /\ IF event.payload.deployment.meta.githubCommitRef = Undefined
       THEN calls' = calls /\ Respond(ErrorResponse, steps)
       ELSE /\ calls' = Append(calls, Delivery(DiscordMessage(event, logs)))
            /\ pc' = "awaitDiscord"
            /\ response' = response
            /\ trace' = steps \o <<"deliver">>

\* Lines 7-24: the configuration checks, then the await of req.text().
Start ==
    /\ pc = "start"
    /\ IF ~IsString(env.WEBHOOK_INTEGRATION_SECRET) \/ ~IsString(env.DISCORD_WEBHOOK_URL)
       THEN Throw(trace)
       ELSE pc' = "readBody" /\ response' = response /\ trace' = trace \o <<"config">>
    /\ UNCHANGED <<env, req, vercelEvent, logResponse, logData, buildLogs,
                   discordResponse, calls>>

\* req.text() rejects (line 24): nothing catches it.
ReadBodyRejects ==
    /\ pc = "readBody"
    /\ Throw(trace)
    /\ UNCHANGED <<env, req, vercelEvent, logResponse, logData, buildLogs,
                   discordResponse, calls>>

\* sendDiscordMessageFor with the log query issued whether or not a token
\* is configured.
SendDiscordMessageFor_NoTokenCheck(event, steps) ==
    IF ~event.payload.present
    THEN /\ calls' = calls /\ buildLogs' = buildLogs
         /\ Respond(ErrorResponse, steps)
    ELSE IF StateOf(event) = "ERROR" \/ StateOf(event) = "CANCELED"
    THEN /\ calls' = Append(calls, LogQuery(event.payload.deployment.id))
         /\ buildLogs' = buildLogs
         /\ pc' = "awaitLogs"
         /\ response' = response
         /\ trace' = steps \o <<"logQuery">>
    ELSE ComposeAndDeliver(event, Undefined, steps)

\* sendDiscordMessageFor from line 139 to its first await.
SendDiscordMessageFor(event, steps) ==
    IF ~event.payload.present
    THEN \* vercelEvent.payload.deployment (line 141) throws a TypeError
         /\ calls' = calls /\ buildLogs' = buildLogs
         /\ Respond(ErrorResponse, steps)
    ELSE IF StateOf(event) = "ERROR" \/ StateOf(event) = "CANCELED"
    THEN IF ~Truthy(env.VERCEL_TOKEN)
         THEN ComposeAndDeliver(event, NoTokenPlaceholder, steps)
         ELSE /\ calls' = Append(calls, LogQuery(event.payload.deployment.id))
              /\ buildLogs' = buildLogs
              /\ pc' = "awaitLogs"
              /\ response' = response
              /\ trace' = steps \o <<"logQuery">>
    ELSE ComposeAndDeliver(event, Undefined, steps)

\* The comparison skipped when the header is absent.
SignatureMismatch_NullAccepted(bodySignature, receivedSignature) ==
    receivedSignature # Null /\ bodySignature # receivedSignature

\* The comparison of line 36.
SignatureMismatch(bodySignature, receivedSignature) ==
    bodySignature # receivedSignature

\* The switch of lines 52-55.
IsDeploymentEvent(type) == type \in RecognizedTypes

\* The parse inside the try: the catch of line 65 answers 500.
OnParseError_Caught(steps) == Respond(ErrorResponse, steps)

\* An exception thrown by lines 46-49, which are outside the try of line 51:
\* it leaves the handler.
OnParseError(steps) == Throw(steps)

\* Lines 24-64 once req.text() has resolved, up to the next await.
ReadBody ==
    /\ pc = "readBody"
    /\ LET rawBody == req.body
           bodySignature == sha1(rawBody, env.WEBHOOK_INTEGRATION_SECRET)
           receivedSignature == req.signature
           parsed == JSONparse(rawBody)
       IN IF SignatureMismatch(bodySignature, receivedSignature)
          THEN /\ Respond(InvalidSignatureResponse, trace \o <<"verify">>)
               /\ UNCHANGED <<vercelEvent, calls, buildLogs>>
          ELSE IF parsed.threw
          THEN \* JSON.parse (line 46) throws a SyntaxError
               /\ OnParseError(trace \o <<"verify", "parse">>)
               /\ UNCHANGED <<vercelEvent, calls, buildLogs>>
          ELSE IF parsed.value.isNull
          THEN \* vercelEvent.type (line 47) on null throws a TypeError
               /\ OnParseError(trace \o <<"verify", "parse">>)
               /\ vercelEvent' = parsed.value
               /\ UNCHANGED <<calls, buildLogs>>
          ELSE IF IsDeploymentEvent(parsed.value.type)
          THEN /\ vercelEvent' = parsed.value
               /\ SendDiscordMessageFor(parsed.value,
                                        trace \o <<"verify", "parse", "dispatch">>)
          ELSE /\ vercelEvent' = parsed.value
               /\ Respond(SuccessResponse, trace \o <<"verify", "parse", "dispatch">>)
               /\ UNCHANGED <<calls, buildLogs>>
    /\ UNCHANGED <<env, req, logResponse, logData, discordResponse>>

\* The fetch of line 94 rejects: the catch of line 132 returns a placeholder.
LogFetchRejects ==
    /\ pc = "awaitLogs"
    /\ \E message \in ErrorMessages :
          ComposeAndDeliver(vercelEvent, CatchPlaceholder(message),
                            trace \o <<"logResult">>)
    /\ UNCHANGED <<env, req, vercelEvent, logResponse, logData, discordResponse>>

\* The fetch of line 94 resolves with a response (lines 100-108).
LogFetchResolves ==
    /\ pc = "awaitLogs"
    /\ \E r \in LogResponses :
          /\ logResponse' = r
          /\ pc' = IF r.ok THEN "awaitLogJson" ELSE "awaitLogErrorText"
    /\ UNCHANGED <<env, req, vercelEvent, logData, buildLogs, discordResponse,
                   calls, response, trace>>

\* response.text() of line 103 resolves: line 105 returns.
LogErrorTextResolves ==
    /\ pc = "awaitLogErrorText"
    /\ ComposeAndDeliver(vercelEvent, NotOkPlaceholder(logResponse.status),
                         trace \o <<"logResult">>)
    /\ UNCHANGED <<env, req, vercelEvent, logResponse, logData, discordResponse>>

\* response.text() of line 103 rejects: the catch of line 132.
LogErrorTextRejects ==
    /\ pc = "awaitLogErrorText"
    /\ \E message \in ErrorMessages :
          ComposeAndDeliver(vercelEvent, CatchPlaceholder(message),
                            trace \o <<"logResult">>)
    /\ UNCHANGED <<env, req, vercelEvent, logResponse, logData, discordResponse>>

\* response.json() of line 108 settles; lines 109-135.
LogJsonSettles ==
    /\ pc = "awaitLogJson"
    /\ \E body \in LogBodies :
          /\ logData' = body
          /\ ComposeAndDeliver(vercelEvent, LogsFromBody(body), trace \o <<"logResult">>)
    /\ UNCHANGED <<env, req, vercelEvent, logResponse, discordResponse>>

\* The fetch of line 212 rejects: caught at line 65.
DiscordFetchRejects ==
    /\ pc = "awaitDiscord"
    /\ Respond(ErrorResponse, trace \o <<"deliverResult">>)
    /\ UNCHANGED <<env, req, vercelEvent, logResponse, logData, buildLogs,
                   discordResponse, calls>>

\* The fetch of line 212 resolves with a response (lines 220-229).
DiscordFetchResolves ==
    /\ pc = "awaitDiscord"
    /\ \E r \in DiscordResponses :
          /\ discordResponse' = r
          /\ pc' = IF r.ok THEN "awaitDiscordText" ELSE "awaitDiscordErrorText"
    /\ trace' = trace \o <<"deliverResult">>
    /\ UNCHANGED <<env, req, vercelEvent, logResponse, logData, buildLogs,
                   calls, response>>

\* response.text() of line 224 settles: line 226 throws with the status and
\* the text, or the rejection propagates; either is caught at line 65.
DiscordErrorTextSettles ==
    /\ pc = "awaitDiscordErrorText"
    /\ \E outcome \in {"read", "failed"} :
          discordResponse' = [discordResponse EXCEPT !.text = outcome]
    /\ Respond(ErrorResponse, trace)
    /\ UNCHANGED <<env, req, vercelEvent, logResponse, logData, buildLogs, calls>>

\* response.text() of line 229 resolves: sendDiscordMessageFor returns and
\* the handler returns at line 64.
DiscordTextResolves ==
    /\ pc = "awaitDiscordText"
    /\ discordResponse' = [discordResponse EXCEPT !.text = "read"]
    /\ Respond(SuccessResponse, trace)
    /\ UNCHANGED <<env, req, vercelEvent, logResponse, logData, buildLogs, calls>>

\* response.text() of line 229 rejects: caught at line 65.
DiscordTextRejects ==
    /\ pc = "awaitDiscordText"
    /\ discordResponse' = [discordResponse EXCEPT !.text = "failed"]
    /\ Respond(ErrorResponse, trace)
    /\ UNCHANGED <<env, req, vercelEvent, logResponse, logData, buildLogs, calls>>

Next ==
    \/ Start
    \/ ReadBodyRejects
    \/ ReadBody
    \/ LogFetchRejects
    \/ LogFetchResolves
    \/ LogErrorTextResolves
    \/ LogErrorTextRejects
    \/ LogJsonSettles
    \/ DiscordFetchRejects
    \/ DiscordFetchResolves
    \/ DiscordErrorTextSettles
    \/ DiscordTextResolves
    \/ DiscordTextRejects

Spec == Init /\ [][Next]_vars

-----------------------------------------------------------------------------
(* Vocabulary of the properties *)

DeliveryCalls == SelectSeq(calls, LAMBDA c : c.to = "discord")
LogQueries == SelectSeq(calls, LAMBDA c : c.to = "vercel")

HasStep(step) == \E i \in 1..Len(trace) : trace[i] = step

Finished == pc = "done" \/ pc = "threw"

\* The handler compared the signatures (line 36 was reached).
Compared == HasStep("verify")

\* The received header equals the hex HMAC of the raw body under the
\* configured secret.
SignatureValid ==
    /\ env.WEBHOOK_INTEGRATION_SECRET # Undefined
    /\ req.signature = sha1(req.body, env.WEBHOOK_INTEGRATION_SECRET)

BodyParses == ~JSONparse(req.body).threw
ParsedType == JSONparse(req.body).value.type
TerminalTypes == {"deployment.succeeded", "deployment.canceled", "deployment.error"}
FailureTypes == {"deployment.canceled", "deployment.error"}

\* fetchVercelBuildLogs was called and has returned.
LogsReturned == buildLogs # Undefined

-----------------------------------------------------------------------------
(* Properties *)

\* C1: a delivery POST is issued only for a request whose received signature
\* equals the signature computed over the raw body and whose parsed type is
\* one of the three terminal deployment types; no other request ever causes
\* a delivery POST.
C1_DeliveryOnlyIfVerifiedAndRecognized ==
    DeliveryCalls # <<>> =>
        /\ SignatureValid
        /\ BodyParses
        /\ ParsedType \in TerminalTypes

\* C1 witness: a handler that has returned after issuing a delivery POST.
C1_Witness == pc = "done" /\ DeliveryCalls # <<>>

\* C2: once the handler has compared a signature header that differs from
\* the HMAC of the body (a missing header included), it returns status 200
\* with the invalid_signature JSON body and has issued no outbound call.
C2_MismatchIs200 ==
    (Compared /\ ~SignatureValid) =>
        /\ pc = "done"
        /\ response.status = 200
        /\ response.body =
             "{\"code\":\"invalid_signature\",\"error\":\"signature didn't match\"}"
        /\ calls = <<>>

\* C2 witness: a request signed under another secret has been answered.
C2_Witness ==
    /\ pc = "done"
    /\ req.signature = sha1(req.body, OtherSecret)
    /\ env.WEBHOOK_INTEGRATION_SECRET = SharedSecret

\* C3 as claimed, for events that carry their payload object: with a valid
\* signature and a body that parses, a terminal deployment type has exactly
\* one delivery POST when the handler has finished; any other type has none
\* and the handler returns 200.
C3_DispatchExactlyOnce ==
    (Finished /\ Compared /\ SignatureValid /\ BodyParses
       /\ ~JSONparse(req.body).value.isNull
       /\ JSONparse(req.body).value.payload.present) =>
        IF ParsedType \in TerminalTypes
        THEN Len(DeliveryCalls) = 1
        ELSE DeliveryCalls = <<>> /\ pc = "done" /\ response.status = 200

\* C4 as claimed: when the delivery POST has answered, a non-success status
\* gives the generic 500 response and exactly one delivery POST, and a
\* success status gives a 200 response.
C4_AsClaimed ==
    (pc = "done" /\ discordResponse.status # 0) =>
        IF discordResponse.status >= 200 /\ discordResponse.status < 300
        THEN response.status = 200
        ELSE /\ response = [status |-> 500, body |-> "Internal server error."]
             /\ Len(DeliveryCalls) = 1

\* C4 amended: when the delivery POST has answered, a non-success status
\* gives the generic 500 response; a success status gives a 200 response
\* when the body of the answer was read, and the generic 500 response when
\* reading it failed; in every case exactly one delivery POST was issued.
C4_DeliveryOutcome ==
    (pc = "done" /\ discordResponse.status # 0) =>
        /\ Len(DeliveryCalls) = 1
        /\ IF discordResponse.status >= 200 /\ discordResponse.status < 300
              /\ discordResponse.text = "read"
           THEN response.status = 200
           ELSE response = [status |-> 500, body |-> "Internal server error."]

\* C4 witness: the chat webhook answered 400 and the handler has returned.
C4_Witness == pc = "done" /\ discordResponse.status = 400

\* C5 as claimed: a validly signed body that fails to parse ends in a 500
\* response returned by the handler, with no outbound call.
C5_AsClaimed ==
    (Finished /\ Compared /\ SignatureValid /\ ~BodyParses) =>
        /\ pc = "done"
        /\ response.status = 500
        /\ calls = <<>>

\* C5 amended: a validly signed body that fails to parse makes the handler
\* end by an exception that nothing in it catches: it returns no response,
\* and no outbound call was issued.
C5_ParseFailureEscapes ==
    (Compared /\ SignatureValid /\ ~BodyParses) =>
        /\ pc = "threw"
        /\ response = [status |-> 0, body |-> ""]
        /\ calls = <<>>

\* C5 witness: the handler has ended on a validly signed body that is not JSON.
C5_Witness == Finished /\ Compared /\ SignatureValid /\ ~BodyParses

\* C6 as claimed: for a verified deployment.error or deployment.canceled
\* event whose log fetch has returned, the handler has issued exactly one
\* delivery POST when it returns, and returns 200 when that POST succeeded.
C6_LogOutcomeNeverStopsDelivery ==
    (pc = "done" /\ SignatureValid /\ vercelEvent.type \in FailureTypes
       /\ LogsReturned) =>
        /\ Len(DeliveryCalls) = 1
        /\ (discordResponse.ok /\ discordResponse.text = "read"
              => response.status = 200)

\* C7: every delivered message lists Project, Branch, Commit, Commit Message
\* in that order; it has a fifth field, Build Logs, exactly when the event
\* is an error or canceled one and the log text is non-empty, and a
\* succeeded message has exactly four fields.
C7_FieldList ==
    \A i \in 1..Len(DeliveryCalls) :
        LET fields == DeliveryCalls[i].body.embeds[1].fields
            needsLogs == /\ vercelEvent.type \in FailureTypes
                         /\ buildLogs # Undefined /\ buildLogs # ""
        IN /\ Len(fields) >= 4
           /\ <<fields[1].name, fields[2].name, fields[3].name, fields[4].name>>
                = <<"Project", "Branch", "Commit", "Commit Message">>
           /\ Len(fields) = (IF needsLogs THEN 5 ELSE 4)
           /\ needsLogs => fields[5].name = "Build Logs"
           /\ vercelEvent.type = "deployment.succeeded" => Len(fields) = 4

\* C7 witness: a canceled event was delivered with a Build Logs field.
C7_Witness ==
    /\ DeliveryCalls # <<>>
    /\ vercelEvent.type = "deployment.canceled"
    /\ Len(DeliveryCalls[1].body.embeds[1].fields) = 5

\* C8 as claimed: whatever path the log fetcher returned by, its text has at
\* most 1500 characters.
C8_LogsAtMostLimit == LogsReturned => Len(buildLogs) <= 1500

\* The log query answered with an array of log events, none of them null,
\* and the fetcher has returned.
LogsSelected ==
    /\ LogsReturned
    /\ logData.kind = "array"
    /\ \A i \in 1..Len(logData.data) : ~logData.data[i].isNull

\* A line of the first priority: type stderr or error, or a stdout line whose
\* payload text contains "error" in any letter case.
C9_Priority(e) ==
    \/ e.type \in {"stderr", "error"}
    \/ /\ e.type = "stdout"
       /\ e.payloadText # Undefined
       /\ includes(toLowerCase(e.payloadText), "error")

C9_Output(e) == e.type \in {"stdout", "stderr"}

\* The text of a line: payload.text, else the top-level text, else nothing.
C9_Text(e) ==
    IF e.payloadText # Undefined /\ e.payloadText # "" THEN e.payloadText
    ELSE IF e.text # Undefined THEN e.text
    ELSE ""

\* The texts of the lines of data at the increasing positions idx, each
\* followed by a newline except the last.
RECURSIVE C9_Lines(_, _)
C9_Lines(data, idx) ==
    IF idx = <<>> THEN ""
    ELSE C9_Text(data[Head(idx)])
         \o (IF Len(idx) > 1 THEN "\n" ELSE "")
         \o C9_Lines(data, Tail(idx))

\* The members of the set of positions S, within 1..n, in increasing order.
C9_Increasing(S, n) == SelectSeq([i \in 1..n |-> i], LAMBDA i : i \in S)

\* The last n entries of a sequence of positions.
C9_Last(idx, n) ==
    [i \in 1..(IF Len(idx) < n THEN Len(idx) ELSE n) |->
        idx[i + (IF Len(idx) < n THEN 0 ELSE Len(idx) - n)]]

Rank(step) ==
    CASE step = "config" -> 0
      [] step = "verify" -> 1
      [] step = "parse" -> 2
      [] step = "dispatch" -> 3
      [] step = "logQuery" -> 4
      [] step = "logResult" -> 5
      [] step = "deliver" -> 6
      [] step = "deliverResult" -> 7
      [] OTHER -> 8

\* C10: the steps of one invocation happen in the order verification,
\* parsing, dispatch, log query, delivery, each at most once; the log query
\* is issued at most once, only after a successful verification and parse
\* and only with a token configured, and its result is in before the
\* delivery POST is issued.
C10_Sequential ==
    /\ \A i, j \in 1..Len(trace) : i < j => Rank(trace[i]) < Rank(trace[j])
    /\ HasStep("logQuery") <=> LogQueries # <<>>
    /\ HasStep("deliver") <=> DeliveryCalls # <<>>
    /\ Len(LogQueries) <= 1
    /\ LogQueries # <<>> =>
          /\ HasStep("verify") /\ HasStep("parse") /\ HasStep("dispatch")
          /\ SignatureValid /\ BodyParses
          /\ env.VERCEL_TOKEN # Undefined /\ env.VERCEL_TOKEN # ""
    /\ \A i, j \in 1..Len(calls) :
          (calls[i].to = "vercel" /\ calls[j].to = "discord") => i < j
    /\ (LogQueries # <<>> /\ DeliveryCalls # <<>>) => HasStep("logResult")

\* C10 witness: an invocation that issued the log query and then the
\* delivery POST has returned.
C10_Witness ==
    /\ pc = "done"
    /\ Len(calls) = 2
    /\ calls[1].to = "vercel" /\ calls[2].to = "discord"

=============================================================================
